---- MODULE Spec2Model ----
(***************************************************************************)
(* Entity-construction pipeline of the Factory class (src/src/factory.ts). *)
(*                                                                         *)
(* Every caller (a top-level make / makeMany / create / createMany call)   *)
(* is a task: an asynchronous chain with its own stack of Factory frames,  *)
(* one frame per make/create call in flight, nested frames being the calls *)
(* resolveEntity makes on factory-valued attributes.  Every action is one  *)
(* step of one task between two suspension points, so tasks interleave     *)
(* exactly where the code awaits.                                          *)
(***************************************************************************)
EXTENDS Integers, Sequences, FiniteSets, TLC

VARIABLES
  status,       \* task -> "idle" | "running" | "done" | "failed"
  call,         \* task -> the arguments of its top-level call
  index,        \* task -> loop index of makeMany / createMany
  list,         \* task -> the entities returned so far (references into heap)
  stack,        \* task -> sequence of frames, innermost call last
  heap,         \* task -> the entity instances the task has constructed
  log,          \* task -> the hook / collaborator invocations it has made
  ncalls,       \* task -> number of make/create calls it has entered
  failure,      \* task -> the error that ended it, and the call that threw
  mapFunction,  \* factory instance -> its registered map function
  dataSource,   \* the shared persistence collaborator
  profile       \* task -> which inputs its caller may choose

vars == <<status, call, index, list, stack, heap, log, ncalls, failure,
          mapFunction, dataSource, profile>>

(***************************************************************************)
(* Bounds                                                                  *)
(***************************************************************************)
MaxTasks == 2
MaxAmount == 2
MaxDepth == 4

Tasks == 1..MaxTasks

(***************************************************************************)
(* Attribute values.  A value is a plain value, a Factory instance, an     *)
(* entity (a reference into the task's heap) or undefined; `deferred`      *)
(* marks a promise that completes with the value it wraps.                 *)
(***************************************************************************)
Undef == [kind |-> "undef", n |-> 0, f |-> "none", deferred |-> FALSE]

Plain(n) == [kind |-> "val", n |-> n, f |-> "none", deferred |-> FALSE]

FactoryRef(f) == [kind |-> "factory", n |-> 0, f |-> f, deferred |-> FALSE]

EntityRef(r) == [kind |-> "entity", n |-> r, f |-> "none", deferred |-> FALSE]

Deferred(v) == [v EXCEPT !.deferred = TRUE]

\* `await v`: the completed value of a promise, v itself otherwise.
Await(v) == [v EXCEPT !.deferred = FALSE]

\* isPromiseLike(value): the value exposes the completion contract.
IsPromiseLike(v) == v.deferred

\* A test that recognises no Factory.
InstanceOfFactoryNever(v) == FALSE

\* value instanceof Factory: a promise is not a Factory, whatever it wraps.
InstanceOfFactory(v) == v.kind = "factory" /\ ~v.deferred

\* Enumeration order of `for (const attribute in entity)`.
Attrs == <<"name", "owner">>

AttrSet == {Attrs[i] : i \in 1..Len(Attrs)}

NoAttrs == [a \in AttrSet |-> Undef]

(***************************************************************************)
(* Factory instances and their configuration.                              *)
(***************************************************************************)
Factories == {"house", "pet", "user", "bare", "loose", "node"}

NoKeys == [def |-> FALSE, keys |-> {}]

Keys(S) == [def |-> TRUE, keys |-> S]

\* The constructor argument: per-instance option overrides.
optionOverrides(f) ==
  CASE f = "house" -> [entity |-> "none", requiredContextKeys |-> Keys({"tenant"}),
                       seedingSource |-> TRUE]
    [] f = "pet"   -> [entity |-> "Dog", requiredContextKeys |-> NoKeys,
                       seedingSource |-> TRUE]
    [] f = "user"  -> [entity |-> "none", requiredContextKeys |-> NoKeys,
                       seedingSource |-> TRUE]
    [] f = "bare"  -> [entity |-> "none", requiredContextKeys |-> NoKeys,
                       seedingSource |-> TRUE]
    [] f = "loose" -> [entity |-> "none", requiredContextKeys |-> NoKeys,
                       seedingSource |-> FALSE]
    [] f = "node"  -> [entity |-> "none", requiredContextKeys |-> NoKeys,
                       seedingSource |-> TRUE]

\* The `options` field a concrete factory class defines.
options(f) ==
  CASE f = "house" -> [entity |-> "House", requiredContextKeys |-> Keys({"region"})]
    [] f = "pet"   -> [entity |-> "Pet", requiredContextKeys |-> NoKeys]
    [] f = "user"  -> [entity |-> "User", requiredContextKeys |-> NoKeys]
    [] f = "bare"  -> [entity |-> "none", requiredContextKeys |-> Keys({"tenant"})]
    [] f = "loose" -> [entity |-> "Loose", requiredContextKeys |-> NoKeys]
    [] f = "node"  -> [entity |-> "Node", requiredContextKeys |-> NoKeys]

\* get requiredContextKeys: optionOverrides ?? options.
requiredContextKeys(f) ==
  IF optionOverrides(f).requiredContextKeys.def
  THEN optionOverrides(f).requiredContextKeys
  ELSE options(f).requiredContextKeys

\* A lookup that prefers the class of the definition options.
entityClassOfDefinition(f) ==
  IF options(f).entity # "none"
  THEN options(f).entity
  ELSE optionOverrides(f).entity

\* entityClass(): optionOverrides.entity if set, options.entity otherwise.
entityClass(f) ==
  IF optionOverrides(f).entity # "none"
  THEN optionOverrides(f).entity
  ELSE options(f).entity

\* Whether the concrete factory class overrides the entity hook.
HookOverridden(f) == f \in {"house", "pet", "user", "node"}

\* What an overriding entity hook writes on the instance it is given.
HookAttrs(f) ==
  CASE f = "house" -> [name |-> Plain(1), owner |-> FactoryRef("pet")]
    [] f = "pet"   -> [name |-> Deferred(Plain(1)), owner |-> FactoryRef("user")]
    [] f = "user"  -> [name |-> Plain(1), owner |-> Undef]
    [] f = "node"  -> [name |-> Plain(1), owner |-> FactoryRef("node")]
    [] OTHER       -> NoAttrs

\* A getter that hands out a seeding source whether or not one is bound.
SeedingSourceAlwaysBound(f) == TRUE

\* get seedingSource(): throws unless optionOverrides.seedingSource is set.
SeedingSourceBound(f) == optionOverrides(f).seedingSource

\* expectContext(context, ...keys): every required key is present.
ExpectContext(context, keys) == keys \subseteq context

(***************************************************************************)
(* Map functions a caller may register, by what they do to the entity.     *)
(***************************************************************************)
\* The registrations callers make: map(f) or map(g) on the user factory,
\* map(f) on the factory without entity class.
MapRegistrations == {<<"user", "f">>, <<"user", "g">>, <<"bare", "f">>}

ApplyMap(fn, attrs) ==
  CASE fn = "f" -> [attrs EXCEPT !["name"] = Plain(3)]
    [] fn = "g" -> [attrs EXCEPT !["name"] = Deferred(Plain(4))]
    [] OTHER    -> attrs

(***************************************************************************)
(* Call arguments.                                                         *)
(***************************************************************************)
NoOverride == [a \in {} |-> Undef]

\* The overrideParams a caller may pass: Partial<Entity>.
OverrideSets ==
  { NoOverride,
    "name" :> Plain(2),
    "name" :> Deferred(Plain(2)),
    "name" :> Deferred(FactoryRef("user")),
    "owner" :> FactoryRef("user"),
    "owner" :> FactoryRef("bare") }

NoSaveOptions == [def |-> FALSE, keys |-> {}]

SaveOptionsSet == {NoSaveOptions, [def |-> TRUE, keys |-> {"chunk"}]}

Contexts == {{}, {"tenant"}}

\* A default parameter `context = {}` takes over when the argument is undefined.
AsContext(arg) == IF arg.def THEN arg.keys ELSE {}

Persisting(op) == op \in {"create", "createMany"}

Many(op) == op \in {"makeMany", "createMany"}

Input(op, f, O, ctx, so, n) ==
  [op |-> op, f |-> f, overrideParams |-> O, context |-> ctx, saveOptions |-> so,
   amount |-> n]

NoCall == Input("none", "none", NoOverride, {}, NoSaveOptions, 0)

\* The public operations of a factory instance that a caller invokes.
Operations == {"make", "makeMany", "create", "createMany", "factory"}

\* The calls a caller of the given profile may make: "full", every call on
\* the factories whose graph is acyclic; "basic", the plain create calls of
\* callers that run together; "graph", calls on every factory.
Inputs(p) ==
  CASE p = "full" ->
         { Input(op, f, O, ctx, so, n) :
             op \in Operations, f \in Factories \ {"node"},
             O \in OverrideSets, ctx \in Contexts, so \in SaveOptionsSet,
             n \in 0..MaxAmount }
    [] p = "basic" ->
         { Input("create", f, NoOverride, {}, NoSaveOptions, 1) : f \in {"pet", "user"} }
           \cup { Input(op, "user", NoOverride, {}, NoSaveOptions, 1) :
                    op \in {"createMany", "factory"} }
    [] p = "graph" ->
         { Input(op, f, O, ctx, NoSaveOptions, n) :
             op \in Operations, f \in Factories,
             O \in {NoOverride, "owner" :> FactoryRef("user")}, ctx \in Contexts,
             n \in 0..MaxAmount }
    [] OTHER -> {}

\* Arguments the call's signature does not have, or does not read, are fixed.
WellFormed(in) ==
  /\ Many(in.op) \/ in.amount = 1
  /\ Persisting(in.op) \/ in.saveOptions = NoSaveOptions
  /\ requiredContextKeys(in.f).def \/ in.context = {}
  /\ in.op = "factory" => in.overrideParams = NoOverride /\ in.context = {}

(***************************************************************************)
(* Frames: one make / create call in flight.                               *)
(***************************************************************************)
\* A pipeline that saves before it finalizes.
PipelineSaveFirst(pc, persist) ==
  CASE pc = "call"     -> "context"
    [] pc = "context"  -> "entity"
    [] pc = "entity"   -> "map"
    [] pc = "map"      -> "merge"
    [] pc = "merge"    -> "resolve"
    [] pc = "resolve"  -> IF persist THEN "save" ELSE "finalize"
    [] pc = "save"     -> "finalize"
    [] OTHER           -> "return"

\* A pipeline that checks the context after the entity hook.
PipelineEntityFirst(pc, persist) ==
  CASE pc = "call"     -> "entity"
    [] pc = "entity"   -> "context"
    [] pc = "context"  -> "map"
    [] pc = "map"      -> "merge"
    [] pc = "merge"    -> "resolve"
    [] pc = "resolve"  -> "finalize"
    [] pc = "finalize" -> IF persist THEN "save" ELSE "return"
    [] OTHER           -> "return"

\* A pipeline that merges the overrides before it applies the map function.
PipelineMergeFirst(pc, persist) ==
  CASE pc = "call"     -> "context"
    [] pc = "context"  -> "entity"
    [] pc = "entity"   -> "merge"
    [] pc = "merge"    -> "map"
    [] pc = "map"      -> "resolve"
    [] pc = "resolve"  -> "finalize"
    [] pc = "finalize" -> IF persist THEN "save" ELSE "return"
    [] OTHER           -> "return"

\* A pipeline that saves the entity before it resolves its attributes.
PipelineSaveBeforeResolve(pc, persist) ==
  CASE pc = "call"     -> "context"
    [] pc = "context"  -> "entity"
    [] pc = "entity"   -> "map"
    [] pc = "map"      -> "merge"
    [] pc = "merge"    -> IF persist THEN "save" ELSE "resolve"
    [] pc = "save"     -> "resolve"
    [] pc = "resolve"  -> "finalize"
    [] OTHER           -> "return"

\* A pipeline that goes back to the finalize hook after the save, and so
\* saves again.
PipelineSaveTwice(pc, persist) ==
  CASE pc = "call"     -> "context"
    [] pc = "context"  -> "entity"
    [] pc = "entity"   -> "map"
    [] pc = "map"      -> "merge"
    [] pc = "merge"    -> "resolve"
    [] pc = "resolve"  -> "finalize"
    [] pc = "finalize" -> IF persist THEN "save" ELSE "return"
    [] pc = "save"     -> "finalize"
    [] OTHER           -> "return"

\* The order of the steps of create -> makeEntity -> save.
PipelineNext(pc, persist) ==
  CASE pc = "call"     -> "context"
    [] pc = "context"  -> "entity"
    [] pc = "entity"   -> "map"
    [] pc = "map"      -> "merge"
    [] pc = "merge"    -> "resolve"
    [] pc = "resolve"  -> "finalize"
    [] pc = "finalize" -> IF persist THEN "save" ELSE "return"
    [] pc = "save"     -> "return"
    [] OTHER           -> "return"

\* `registered` remembers, until the map step, the map function the instance
\* held when the call was entered; no step reads it.
Frame(t, f, persist, O, ctx, so) ==
  [id |-> ncalls[t] + 1, f |-> f, persist |-> persist, overrideParams |-> O,
   context |-> ctx, saveOptions |-> so, pc |-> PipelineNext("call", persist),
   ent |-> 0, attr |-> 1, registered |-> mapFunction[f]]

Depth(t) == Len(stack[t])

Top(t) == stack[t][Depth(t)]

SetTop(t, fr) == [stack EXCEPT ![t] = [@ EXCEPT ![Len(@)] = fr]]

At(t, pc) == status[t] = "running" /\ Depth(t) > 0 /\ Top(t).pc = pc

Event(t, ev, fr, fn) ==
  [ev |-> ev, call |-> fr.id, ent |-> fr.ent, f |-> fr.f, depth |-> Depth(t),
   iter |-> index[t], persist |-> fr.persist, fn |-> fn,
   saveOptions |-> fr.saveOptions]

NoFailure == [err |-> "none", call |-> 0, depth |-> 0]

\* A thrown error rejects every awaiting call up to the caller.
Throw(t, err, fr) ==
  /\ status' = [status EXCEPT ![t] = "failed"]
  /\ failure' = [failure EXCEPT ![t] = [err |-> err, call |-> fr.id, depth |-> Depth(t)]]
  /\ stack' = [stack EXCEPT ![t] = <<>>]

(***************************************************************************)
(* Initial state: no call made, no map function registered, the data       *)
(* source not yet initialized.                                             *)
(***************************************************************************)
InitWith(pr) ==
  /\ status = [t \in Tasks |-> "idle"]
  /\ call = [t \in Tasks |-> NoCall]
  /\ index = [t \in Tasks |-> 0]
  /\ list = [t \in Tasks |-> <<>>]
  /\ stack = [t \in Tasks |-> <<>>]
  /\ heap = [t \in Tasks |-> <<>>]
  /\ log = [t \in Tasks |-> <<>>]
  /\ ncalls = [t \in Tasks |-> 0]
  /\ failure = [t \in Tasks |-> NoFailure]
  /\ mapFunction = [f \in Factories |-> "none"]
  /\ dataSource = [isInitialized |-> FALSE, initializeCalls |-> 0]
  /\ profile = pr

\* One caller, free to make any of the calls.
Init == InitWith([t \in Tasks |-> IF t = 1 THEN "full" ELSE "off"])

(***************************************************************************)
(* map(mapFunction): registers the function on the instance.               *)
(***************************************************************************)
Map(f, fn) ==
  /\ mapFunction' = [mapFunction EXCEPT ![f] = fn]
  /\ UNCHANGED <<status, call, index, list, stack, heap, log, ncalls, failure,
                 dataSource, profile>>

(***************************************************************************)
(* The top-level calls.                                                    *)
(***************************************************************************)
\* make / create: enters makeEntity at once.  makeMany / createMany: enters
\* the loop.
StartCall(t, in) ==
  /\ status[t] = "idle"
  /\ in \in Inputs(profile[t])
  /\ WellFormed(in)
  /\ status' = [status EXCEPT ![t] = "running"]
  /\ call' = [call EXCEPT ![t] = in]
  /\ IF Many(in.op) \/ in.op = "factory"
     THEN UNCHANGED <<stack, ncalls>>
     ELSE /\ stack' = [stack EXCEPT ![t] =
                         <<Frame(t, in.f, Persisting(in.op), in.overrideParams,
                                 in.context, in.saveOptions)>>]
          /\ ncalls' = [ncalls EXCEPT ![t] = @ + 1]
  /\ UNCHANGED <<index, list, heap, log, failure, mapFunction,
                 dataSource, profile>>

\* factory(factory): resolveFactory(this.seedingSource, ...) reads the getter,
\* which throws when no seeding source is bound; otherwise the caller gets a
\* factory instance and no entity.
FactoryCall(t) ==
  /\ status[t] = "running"
  /\ call[t].op = "factory"
  /\ IF SeedingSourceBound(call[t].f)
     THEN /\ status' = [status EXCEPT ![t] = "done"]
          /\ UNCHANGED <<failure, stack>>
     ELSE Throw(t, "MissingSeedingSource", [id |-> 0])
  /\ UNCHANGED <<call, index, list, heap, log, ncalls, mapFunction, dataSource,
                 profile>>

\* A loop that does not await the call it made.
IterationNotAwaited(t) == TRUE

\* `list[index] = await this.make(...)`: the loop goes on only when the call
\* it awaits has returned.
IterationComplete(t) == stack[t] = <<>>

\* An off-by-one loop bound.
LoopConditionInclusive(i, amount) == i <= amount

\* `index < amount`
LoopCondition(i, amount) == i < amount

\* One iteration of the loop of makeMany / createMany: calls make / create.
Iterate(t) ==
  /\ status[t] = "running"
  /\ Many(call[t].op)
  /\ IterationComplete(t)
  /\ LoopCondition(index[t], call[t].amount)
  /\ stack' = [stack EXCEPT ![t] =
                 <<Frame(t, call[t].f, Persisting(call[t].op), call[t].overrideParams,
                         call[t].context, call[t].saveOptions)>>]
  /\ ncalls' = [ncalls EXCEPT ![t] = @ + 1]
  /\ UNCHANGED <<status, call, index, list, heap, log, failure, mapFunction, dataSource, profile>>

\* `return list`
ReturnList(t) ==
  /\ status[t] = "running"
  /\ Many(call[t].op)
  /\ IterationComplete(t)
  /\ ~LoopCondition(index[t], call[t].amount)
  /\ status' = [status EXCEPT ![t] = "done"]
  /\ UNCHANGED <<call, index, list, stack, heap, log, ncalls, failure, mapFunction, dataSource, profile>>

(***************************************************************************)
(* makeEntity, step by step.                                               *)
(***************************************************************************)
\* if (this.requiredContextKeys) expectContext(context, ...keys)
CheckContext(t) ==
  /\ At(t, "context")
  /\ LET fr == Top(t)
         rk == requiredContextKeys(fr.f)
     IN IF rk.def /\ ~ExpectContext(fr.context, rk.keys)
        THEN /\ Throw(t, "MissingContext", fr)
             /\ UNCHANGED log
        ELSE /\ stack' = SetTop(t, [fr EXCEPT !.pc = PipelineNext("context", fr.persist)])
             /\ log' = [log EXCEPT ![t] = Append(@, Event(t, "context", fr, "none"))]
             /\ UNCHANGED <<status, failure>>
  /\ UNCHANGED <<call, index, list, heap, ncalls, mapFunction, dataSource,
                 profile>>

\* A base entity hook that never throws.
EntityHookNeverThrows(f, hasInstance) == FALSE

\* The base entity hook throws when it is given no instance.
EntityHookThrows(f, hasInstance) == ~HookOverridden(f) /\ ~hasInstance

\* One instance handed to every call.
InstanceShared(t) == 1

\* `new entityClass()`: an instance no earlier call has seen.
InstanceNew(t) == Len(heap[t]) + 1

\* The instance the entity hook returns.
NewEntity(fr, cls) ==
  [cls |-> cls, attrs |-> IF HookOverridden(fr.f) THEN HookAttrs(fr.f) ELSE NoAttrs,
   id |-> 0, by |-> fr.f, call |-> fr.id]

\* const entity = await this.entity(entityClass ? new entityClass() : undefined, context)
MakeInstance(t) ==
  /\ At(t, "entity")
  /\ LET fr == Top(t)
         cls == entityClass(fr.f)
         r == InstanceNew(t)
         e == NewEntity(fr, IF cls # "none" THEN cls ELSE "Object")
     IN IF EntityHookThrows(fr.f, cls # "none")
        THEN /\ Throw(t, "NotImplemented", fr)
             /\ log' = [log EXCEPT ![t] = Append(@, Event(t, "entity", fr, "none"))]
             /\ UNCHANGED heap
        ELSE /\ heap' = [heap EXCEPT ![t] =
                           IF r > Len(@) THEN Append(@, e) ELSE [@ EXCEPT ![r] = e]]
             /\ stack' = SetTop(t, [fr EXCEPT !.pc = PipelineNext("entity", fr.persist),
                                              !.ent = r])
             /\ log' = [log EXCEPT ![t] =
                          Append(@, Event(t, "entity", [fr EXCEPT !.ent = r], "none"))]
             /\ UNCHANGED <<status, failure>>
  /\ UNCHANGED <<call, index, list, ncalls, mapFunction, dataSource, profile>>

\* if (this.mapFunction) await this.mapFunction(entity)
ApplyMapFunction(t) ==
  /\ At(t, "map")
  /\ LET fr == Top(t)
         fn == mapFunction[fr.f]
     IN /\ stack' = SetTop(t, [fr EXCEPT !.pc = PipelineNext("map", fr.persist),
                                         !.registered = "none"])
        /\ IF fn # "none"
           THEN /\ heap' = [heap EXCEPT ![t][fr.ent].attrs = ApplyMap(fn, @)]
                /\ log' = [log EXCEPT ![t] = Append(@, Event(t, "map", fr, fn))]
           ELSE UNCHANGED <<heap, log>>
  /\ UNCHANGED <<status, call, index, list, ncalls, failure, mapFunction,
                 dataSource, profile>>

\* A merge that only fills the attributes the entity lacks.
OverrideMergeMissingOnly(attrs, O) ==
  [a \in AttrSet |-> IF a \in DOMAIN O /\ attrs[a] = Undef THEN O[a] ELSE attrs[a]]

\* for (const key in overrideParams) entity[key] = overrideParams[key]
OverrideMerge(attrs, O) ==
  [a \in AttrSet |-> IF a \in DOMAIN O THEN O[a] ELSE attrs[a]]

MergeOverrides(t) ==
  /\ At(t, "merge")
  /\ LET fr == Top(t)
     IN /\ stack' = SetTop(t, [fr EXCEPT !.pc = PipelineNext("merge", fr.persist)])
        /\ heap' = [heap EXCEPT ![t][fr.ent].attrs = OverrideMerge(@, fr.overrideParams)]
        /\ log' = [log EXCEPT ![t] = Append(@, Event(t, "merge", fr, "none"))]
  /\ UNCHANGED <<status, call, index, list, ncalls, failure, mapFunction,
                 dataSource, profile>>

(***************************************************************************)
(* resolveEntity, one attribute per step.                                  *)
(***************************************************************************)
\* A resolver that leaves promises in place.
ResolveValueNoAwait(v) == v

\* if (isPromiseLike(attributeValue)) entity[attribute] = await attributeValue
ResolveValue(v) == IF IsPromiseLike(v) THEN Await(v) ELSE v

\* Nested factories always created / always made.
NestedPersistAlways(persist) == TRUE

NestedPersistNever(persist) == FALSE

\* if (persist) attributeValue.create(...) else attributeValue.make()
NestedPersist(persist) == persist

\* attributeValue.create(undefined, saveOptions) / attributeValue.make()
NestedFrame(t, fr, v) ==
  IF NestedPersist(fr.persist)
  THEN Frame(t, v.f, TRUE, NoOverride, AsContext(fr.saveOptions), NoSaveOptions)
  ELSE Frame(t, v.f, FALSE, NoOverride, {}, NoSaveOptions)

\* The loop goes to the next attribute, or resolveEntity returns.
NextAttribute(fr) ==
  IF fr.attr < Len(Attrs)
  THEN [fr EXCEPT !.attr = @ + 1]
  ELSE [fr EXCEPT !.attr = @ + 1, !.pc = PipelineNext("resolve", fr.persist)]

ResolveAttribute(t) ==
  /\ At(t, "resolve")
  /\ LET fr == Top(t)
         a == Attrs[fr.attr]
         attributeValue == heap[t][fr.ent].attrs[a]
     IN /\ InstanceOfFactory(attributeValue) => Depth(t) < MaxDepth
        /\ heap' = [heap EXCEPT ![t][fr.ent].attrs[a] = ResolveValue(attributeValue)]
        /\ IF InstanceOfFactory(attributeValue)
           THEN /\ stack' = [stack EXCEPT ![t] =
                               Append(@, NestedFrame(t, fr, attributeValue))]
                /\ ncalls' = [ncalls EXCEPT ![t] = @ + 1]
           ELSE /\ stack' = SetTop(t, NextAttribute(fr))
                /\ UNCHANGED ncalls
  /\ UNCHANGED <<status, call, index, list, log, failure, mapFunction,
                 dataSource, profile>>

\* entity[attribute] = await attributeValue.create(...) / .make(): the nested
\* call has returned its entity.
ReturnNested(t) ==
  /\ At(t, "return")
  /\ Depth(t) > 1
  /\ LET child == Top(t)
         parent == stack[t][Depth(t) - 1]
         a == Attrs[parent.attr]
     IN /\ heap' = [heap EXCEPT ![t][parent.ent].attrs[a] = EntityRef(child.ent)]
        /\ stack' = [stack EXCEPT ![t] =
                       Append(SubSeq(@, 1, Len(@) - 2), NextAttribute(parent))]
  /\ UNCHANGED <<status, call, index, list, log, ncalls, failure, mapFunction, dataSource, profile>>

\* await this.finalize(resolvedEntity, context)
Finalize(t) ==
  /\ At(t, "finalize")
  /\ LET fr == Top(t)
     IN /\ stack' = SetTop(t, [fr EXCEPT !.pc = PipelineNext("finalize", fr.persist)])
        /\ log' = [log EXCEPT ![t] = Append(@, Event(t, "finalize", fr, "none"))]
  /\ UNCHANGED <<status, call, index, list, heap, ncalls, failure, mapFunction, dataSource, profile>>

(***************************************************************************)
(* save                                                                    *)
(***************************************************************************)
\* dataSource.createEntityManager().save(entities, saveOptions): the entity
\* comes back with the identity the persistence layer assigned.
EntityManagerSave(t, fr) ==
  /\ heap' = [heap EXCEPT ![t][fr.ent].id = fr.ent]
  /\ log' = [log EXCEPT ![t] = Append(@, Event(t, "save", fr, "none"))]
  /\ stack' = SetTop(t, [fr EXCEPT !.pc = PipelineNext("save", fr.persist)])

\* The seedingSource getter, the isInitialized test and either the call of
\* initialize() or the save.
Save(t) ==
  /\ At(t, "save")
  /\ LET fr == Top(t)
     IN IF ~SeedingSourceBound(fr.f)
        THEN /\ Throw(t, "MissingSeedingSource", fr)
             /\ UNCHANGED <<heap, log, dataSource>>
        ELSE IF ~dataSource.isInitialized
        THEN /\ dataSource' = [dataSource EXCEPT !.initializeCalls = @ + 1]
             /\ stack' = SetTop(t, [fr EXCEPT !.pc = "initializing"])
             /\ log' = [log EXCEPT ![t] = Append(@, Event(t, "initialize", fr, "none"))]
             /\ UNCHANGED <<status, failure, heap>>
        ELSE /\ EntityManagerSave(t, fr)
             /\ UNCHANGED <<status, failure, dataSource>>
  /\ UNCHANGED <<call, index, list, ncalls, mapFunction, profile>>

\* `await dataSource.initialize()` completes, and the save follows.
Initialized(t) ==
  /\ At(t, "initializing")
  /\ dataSource' = [dataSource EXCEPT !.isInitialized = TRUE]
  /\ EntityManagerSave(t, Top(t))
  /\ UNCHANGED <<status, call, index, list, ncalls, failure, mapFunction,
                 profile>>

\* The top-level make / create returns its entity to the caller, or to the
\* loop of makeMany / createMany.
Return(t) ==
  /\ At(t, "return")
  /\ Depth(t) = 1
  /\ stack' = [stack EXCEPT ![t] = <<>>]
  /\ list' = [list EXCEPT ![t] = Append(@, Top(t).ent)]
  /\ IF Many(call[t].op)
     THEN /\ index' = [index EXCEPT ![t] = @ + 1]
          /\ UNCHANGED status
     ELSE /\ status' = [status EXCEPT ![t] = "done"]
          /\ UNCHANGED index
  /\ UNCHANGED <<call, heap, log, ncalls, failure, mapFunction, dataSource,
                 profile>>

(***************************************************************************)
(* Specification                                                           *)
(***************************************************************************)
Next ==
  \/ \E m \in MapRegistrations : Map(m[1], m[2])
  \/ \E t \in Tasks : status[t] = "idle" /\ \E in \in Inputs(profile[t]) : StartCall(t, in)
  \/ \E t \in Tasks : FactoryCall(t)
  \/ \E t \in Tasks : Iterate(t)
  \/ \E t \in Tasks : ReturnList(t)
  \/ \E t \in Tasks : CheckContext(t)
  \/ \E t \in Tasks : MakeInstance(t)
  \/ \E t \in Tasks : ApplyMapFunction(t)
  \/ \E t \in Tasks : MergeOverrides(t)
  \/ \E t \in Tasks : ResolveAttribute(t)
  \/ \E t \in Tasks : ReturnNested(t)
  \/ \E t \in Tasks : Finalize(t)
  \/ \E t \in Tasks : Save(t)
  \/ \E t \in Tasks : Initialized(t)
  \/ \E t \in Tasks : Return(t)

Spec == Init /\ [][Next]_vars

\* Callers that start their calls together, as with Promise.all, on the one
\* data source.
InitConcurrent == InitWith([t \in Tasks |-> "basic"])

SpecConcurrent == InitConcurrent /\ [][Next]_vars

\* One caller over every factory, the self-referencing one included.
InitGraph == InitWith([t \in Tasks |-> IF t = 1 THEN "graph" ELSE "off"])

\* A step of a call in flight: the continuation the event loop runs next.
Run(t) ==
  \/ FactoryCall(t)
  \/ Iterate(t)
  \/ ReturnList(t)
  \/ CheckContext(t)
  \/ MakeInstance(t)
  \/ ApplyMapFunction(t)
  \/ MergeOverrides(t)
  \/ ResolveAttribute(t)
  \/ ReturnNested(t)
  \/ Finalize(t)
  \/ Save(t)
  \/ Initialized(t)
  \/ Return(t)

\* The event loop runs every continuation that is ready: hooks, promises and
\* the collaborators complete.
SpecFair == InitGraph /\ [][Next]_vars /\ \A t \in Tasks : WF_vars(Run(t))

(***************************************************************************)
(* Vocabulary of the properties.                                           *)
(***************************************************************************)
Events(t) == 1..Len(log[t])

\* Events i of task t that are invocations `ev` made by call c.
Invoked(t, ev, c) == {i \in Events(t) : log[t][i].ev = ev /\ log[t][i].call = c}

\* The entities a value refers to.
Refs(attrs) == {attrs[a].n : a \in {b \in AttrSet : attrs[b].kind = "entity"}}

\* The entity r with the related entities it refers to, at every depth.
RECURSIVE Graph(_, _, _)
Graph(t, r, d) ==
  IF d = 0 THEN {r}
  ELSE {r} \cup UNION {Graph(t, n, d - 1) : n \in Refs(heap[t][r].attrs)}

\* Every entity a make / create call of task t has returned to its caller.
Returned(t) == UNION {Graph(t, list[t][k], Len(heap[t])) : k \in 1..Len(list[t])}

\* The map function call c applied, "none" if it applied none.
MapApplied(t, c) ==
  IF Invoked(t, "map", c) = {} THEN "none"
  ELSE log[t][CHOOSE i \in Invoked(t, "map", c) : TRUE].fn

\* What the entity hook followed by the map function produced for entity r.
Produced(t, r) ==
  ApplyMap(MapApplied(t, heap[t][r].call),
           IF HookOverridden(heap[t][r].by) THEN HookAttrs(heap[t][r].by) ELSE NoAttrs)

\* The value attribute a of the top-level entity r had before resolution.
Merged(t, r, a) ==
  IF a \in DOMAIN call[t].overrideParams
  THEN call[t].overrideParams[a]
  ELSE Produced(t, r)[a]

\* The returned value is the resolution of the expected one.
ResolutionOf(t, actual, expected) ==
  IF expected.kind = "factory" /\ ~expected.deferred
  THEN /\ actual.kind = "entity"
       /\ ~actual.deferred
       /\ heap[t][actual.n].by = expected.f
  ELSE actual = [expected EXCEPT !.deferred = FALSE]

\* The single-call override property of a returned top-level entity.
OverrideProperty(t, r) ==
  \A a \in AttrSet : ResolutionOf(t, heap[t][r].attrs[a], Merged(t, r, a))

C2_MakeNeverPersists ==
  \A t \in Tasks :
    call[t].op \in {"make", "makeMany"}
      => /\ \A i \in Events(t) : log[t][i].ev \notin {"initialize", "save"}
         /\ \A d \in 1..Depth(t) : ~stack[t][d].persist /\ stack[t][d].pc # "initializing"
         /\ \A r \in 1..Len(heap[t]) : heap[t][r].id = 0

\* A make call has returned an entity built through two levels of nested
\* factories.
C2_Witness ==
  \E t \in Tasks :
    /\ call[t].op = "make"
    /\ status[t] = "done"
    /\ \E i \in Events(t) : log[t][i].depth = 3 /\ log[t][i].ev = "finalize"

(***************************************************************************)
(* C3.  The claim: a returned entity's overridden attributes equal exactly *)
(* the values in O and its other attributes are exactly what the entity    *)
(* hook followed by the map function produced.                             *)
(***************************************************************************)
C3_OverridesExact ==
  \A t \in Tasks :
    (status[t] = "done" /\ call[t].op \in {"make", "create"})
      => \A a \in AttrSet : heap[t][list[t][1]].attrs[a] = Merged(t, list[t][1], a)

(***************************************************************************)
(* C3, amended.  make(O) and create(O) return an entity whose overridden   *)
(* attributes hold the values in O and whose other attributes hold what    *)
(* the entity hook followed by the map function produced, each after       *)
(* resolution: a deferred value is replaced by its completed value and a   *)
(* Factory instance by an entity that factory built.                       *)
(***************************************************************************)
C3_OverridesResolved ==
  \A t \in Tasks :
    (status[t] = "done" /\ call[t].op \in {"make", "create"})
      => /\ Len(list[t]) = 1
         /\ OverrideProperty(t, list[t][1])

\* A call that overrode an attribute the map function had written, with a
\* deferred value, has returned.
C3_Witness ==
  \E t \in Tasks :
    /\ status[t] = "done"
    /\ call[t].op \in {"make", "create"}
    /\ call[t].overrideParams = ("name" :> Deferred(Plain(2)))
    /\ MapApplied(t, 1) # "none"
    /\ heap[t][list[t][1]].attrs["name"] = Plain(2)

(***************************************************************************)
(* C4.  Identity is populated exactly when persisting, at every depth:     *)
(* the entities make returns, related ones included, were never saved and  *)
(* carry no identity; the entities create returns, related ones included,  *)
(* were each saved and carry an identity.                                  *)
(***************************************************************************)
C4_IdentityIffPersisted ==
  \A t \in Tasks : \A r \in Returned(t) :
    LET saved == \E i \in Events(t) : log[t][i].ev = "save" /\ log[t][i].ent = r
    IN IF Persisting(call[t].op)
       THEN saved /\ heap[t][r].id # 0
       ELSE ~saved /\ heap[t][r].id = 0

\* A create call has returned an entity with related entities two levels deep.
C4_Witness ==
  \E t \in Tasks :
    /\ call[t].op = "create"
    /\ status[t] = "done"
    /\ \E r \in Returned(t) : \E n \in Refs(heap[t][r].attrs) :
         Refs(heap[t][n].attrs) # {}

(***************************************************************************)
(* C5.  No attribute of an entity returned by make or create holds a raw   *)
(* Factory instance, whatever the hook, the map function or the overrides  *)
(* placed in the attributes.                                               *)
(***************************************************************************)
C5_NoRawFactory ==
  \A t \in Tasks : \A r \in Returned(t) : \A a \in AttrSet :
    heap[t][r].attrs[a].kind # "factory"

(***************************************************************************)
(* C6.  Every attribute that held a deferred value, set by the entity      *)
(* hook, by the map function or by an override, holds its completed value  *)
(* when make or create returns; no returned attribute is still deferred.   *)
(***************************************************************************)
C6_DeferredCompleted ==
  \A t \in Tasks :
    /\ \A r \in Returned(t) : \A a \in AttrSet : ~heap[t][r].attrs[a].deferred
    /\ \A k \in 1..Len(list[t]) : \A a \in AttrSet :
         LET before == Merged(t, list[t][k], a)
         IN before.deferred
              => heap[t][list[t][k]].attrs[a] = [before EXCEPT !.deferred = FALSE]

\* A create call returned an entity whose map function and override had each
\* written a deferred value.
C6_Witness ==
  \E t \in Tasks :
    /\ status[t] = "done"
    /\ call[t].op = "create"
    /\ call[t].f = "user"
    /\ MapApplied(t, 1) = "g"
    /\ call[t].overrideParams = ("name" :> Deferred(Plain(2)))
    /\ heap[t][list[t][1]].attrs["name"] = Plain(2)

(***************************************************************************)
(* C7.  makeMany and createMany return exactly `amount` entities, each     *)
(* with the single-call override property; with amount 0 the result is     *)
(* empty and no hook, no initialize and no save is invoked.                *)
(***************************************************************************)
C7_ManyReturnsAmount ==
  \A t \in Tasks :
    Many(call[t].op)
      => /\ Len(list[t]) <= call[t].amount
         /\ status[t] = "done" => Len(list[t]) = call[t].amount
         /\ \A k \in 1..Len(list[t]) : OverrideProperty(t, list[t][k])
         /\ call[t].amount = 0
              => /\ log[t] = <<>>
                 /\ heap[t] = <<>>
                 /\ ncalls[t] = 0
                 /\ status[t] # "failed"

\* A createMany call of two entities with an override has returned.
C7_Witness ==
  \E t \in Tasks :
    /\ call[t].op = "createMany"
    /\ status[t] = "done"
    /\ call[t].amount = 2
    /\ Len(list[t]) = 2
    /\ call[t].overrideParams # NoOverride

(***************************************************************************)
(* C8.  makeMany and createMany run their iterations one after another: a  *)
(* top-level call starts (context check, entity hook) only when every      *)
(* earlier top-level call has completed, its finalize and, for createMany, *)
(* its save included; invocations of different iterations do not           *)
(* interleave; the list is in call order.                                  *)
(***************************************************************************)
C8_Sequential ==
  \A t \in Tasks :
    Many(call[t].op)
      => LET L == log[t]
             last == IF Persisting(call[t].op) THEN "save" ELSE "finalize"
             TopLevel == {i \in Events(t) : L[i].depth = 1}
             Completed(c) == {k \in Events(t) : L[k].call = c /\ L[k].ev = last}
         IN /\ \A j \in TopLevel : \A i \in TopLevel :
                 (i < j /\ L[i].call # L[j].call)
                   => \E k \in Completed(L[i].call) : k < j
            /\ \A i \in 1..(Len(L) - 1) : L[i].iter <= L[i + 1].iter
            /\ \A k \in 1..Len(list[t]) : \A l \in 1..Len(list[t]) :
                 k < l => heap[t][list[t][k]].call < heap[t][list[t][l]].call
            /\ \A k \in 1..Len(list[t]) :
                 \A i \in Events(t) : L[i].ent = list[t][k] => L[i].iter = k - 1

\* A createMany call on a factory with a related factory is in its second
\* iteration.
C8_Witness ==
  \E t \in Tasks :
    /\ call[t].op = "createMany"
    /\ call[t].f = "pet"
    /\ index[t] = 1
    /\ At(t, "resolve")
    /\ Depth(t) = 2

(***************************************************************************)
(* C9.  When the factory declares required context keys and the context    *)
(* does not satisfy them, make and create fail with the missing-context    *)
(* error before any side effect: the call that fails the check has         *)
(* instantiated no entity and invoked no hook, no nested factory, no       *)
(* initialize and no save.                                                 *)
(***************************************************************************)
ContextUnsatisfied(f, context) ==
  /\ requiredContextKeys(f).def
  /\ ~(requiredContextKeys(f).keys \subseteq context)

C9_MissingContextNoSideEffect ==
  \A t \in Tasks :
    /\ (call[t].op \in {"make", "create"} /\ ContextUnsatisfied(call[t].f, call[t].context))
         => /\ status[t] # "done"
            /\ status[t] = "failed" => failure[t].err = "MissingContext"
            /\ log[t] = <<>>
            /\ heap[t] = <<>>
            /\ ncalls[t] = 1
            /\ list[t] = <<>>
    /\ failure[t].err = "MissingContext"
         => /\ \A i \in Events(t) : log[t][i].call # failure[t].call
            /\ \A r \in 1..Len(heap[t]) : heap[t][r].call # failure[t].call
            /\ ncalls[t] = failure[t].call

\* A create call on a factory with an entity class failed the context check.
C9_Witness ==
  \E t \in Tasks :
    /\ status[t] = "failed"
    /\ failure[t].err = "MissingContext"
    /\ call[t].op = "create"
    /\ call[t].f = "house"
    /\ call[t].context = {}

(***************************************************************************)
(* C10.  The claim: a factory with no entity class and the base entity     *)
(* hook fails every make and create call with the not-implemented error.   *)
(***************************************************************************)
NoEntityConfigured(f) == entityClass(f) = "none" /\ ~HookOverridden(f)

C10_AlwaysNotImplemented ==
  \A t \in Tasks :
    (call[t].op \in {"make", "create"} /\ NoEntityConfigured(call[t].f))
      => /\ status[t] # "done"
         /\ status[t] = "failed" => failure[t].err = "NotImplemented"

(***************************************************************************)
(* C10, amended.  Such a factory fails every make and create call, never   *)
(* partially succeeding: with the not-implemented error when the           *)
(* required-context check passes and with the missing-context error when   *)
(* it does not; no entity is returned, the map function and the finalize   *)
(* hook are not invoked and nothing is saved.                              *)
(***************************************************************************)
C10_NeverSucceeds ==
  \A t \in Tasks :
    /\ (call[t].op \in {"make", "create"} /\ NoEntityConfigured(call[t].f))
         => /\ status[t] # "done"
            /\ list[t] = <<>>
            /\ status[t] = "failed"
                 => failure[t].err =
                      IF ContextUnsatisfied(call[t].f, call[t].context)
                      THEN "MissingContext" ELSE "NotImplemented"
    /\ \A i \in Events(t) :
         NoEntityConfigured(log[t][i].f) => log[t][i].ev \in {"context", "entity"}
    /\ \A r \in 1..Len(heap[t]) : ~NoEntityConfigured(heap[t][r].by)

\* A make call on such a factory, with a map function registered and the
\* required context supplied, failed with the not-implemented error.
C10_Witness ==
  \E t \in Tasks :
    /\ status[t] = "failed"
    /\ failure[t].err = "NotImplemented"
    /\ failure[t].depth = 1
    /\ NoEntityConfigured(call[t].f)
    /\ mapFunction[call[t].f] # "none"

(***************************************************************************)
(* C11.  Across any interleaving of create calls in flight on one shared   *)
(* data source, initialize is invoked at most once (so never while an      *)
(* initialization is in progress or complete), and no save starts before   *)
(* the initialization has completed.                                       *)
(***************************************************************************)
C11_InitializeOnce ==
  /\ dataSource.initializeCalls <= 1
  /\ \A t \in Tasks : \A i \in Events(t) :
       log[t][i].ev = "save" => dataSource.isInitialized

(***************************************************************************)
(* C12.  After map(fn) on a factory instance, every construction call      *)
(* entered afterwards invokes a map function exactly once, after the       *)
(* entity hook and before the override merge, and the function it invokes  *)
(* is the one registered most recently: a function that has been replaced  *)
(* is never invoked again.  map changes nothing but the registered         *)
(* function of the instance it is called on.                               *)
(***************************************************************************)
\* Every invocation of a map function is the only one of its call, follows
\* the entity hook of that call and precedes its override merge.
C12_Order ==
  \A t \in Tasks : \A k \in Events(t) :
    log[t][k].ev = "map"
      => /\ \E e \in 1..(k - 1) :
              log[t][e].ev = "entity" /\ log[t][e].call = log[t][k].call
         /\ \A m \in 1..(k - 1) :
              log[t][m].call = log[t][k].call => log[t][m].ev \notin {"map", "merge"}
         /\ \A m \in Events(t) :
              (log[t][m].ev = "map" /\ log[t][m].call = log[t][k].call) => m = k

\* The step of a call in flight that leaves the map step.
C12_MapStep(t) == At(t, "map") /\ stack'[t] # stack[t]

\* A call entered after a registration invokes, at its map step, the function
\* registered at that moment; no other step invokes a map function; map
\* returns the instance with only its registered function changed.
C12_Invocation ==
  /\ \A t \in Tasks :
       LET n == Len(log'[t])
       IN /\ (C12_MapStep(t) /\ Top(t).registered # "none")
               => /\ n = Len(log[t]) + 1
                  /\ log'[t][n].ev = "map"
                  /\ log'[t][n].call = Top(t).id
          /\ (n > Len(log[t]) /\ log'[t][n].ev = "map")
               => /\ C12_MapStep(t)
                  /\ log'[t][n].fn = mapFunction[Top(t).f]
                  /\ log'[t][n].fn # "none"
  /\ mapFunction' # mapFunction
       => /\ UNCHANGED <<status, call, index, list, stack, heap, log, dataSource>>
          /\ \E f \in Factories :
               \A g \in Factories \ {f} : mapFunction'[g] = mapFunction[g]

C12_MapFunction == [](C12_Order) /\ [][C12_Invocation]_vars

\* A makeMany call has applied map function f in one iteration and, map(g)
\* having been registered in between, g in the next.
C12_Witness ==
  \E t \in Tasks :
    /\ status[t] = "done"
    /\ \E i \in Events(t) : \E j \in Events(t) :
         /\ i < j
         /\ log[t][i].ev = "map" /\ log[t][i].fn = "f"
         /\ log[t][j].ev = "map" /\ log[t][j].fn = "g"
         /\ log[t][i].f = log[t][j].f

(***************************************************************************)
(* C13.  The create call resolveEntity makes on a nested factory passes no *)
(* overrides, and the save of the nested entity uses the saveOptions of    *)
(* the enclosing create, at every depth.                                   *)
(***************************************************************************)
C13_NestedSaveOptions ==
  \A t \in Tasks :
    /\ \A d \in 2..Depth(t) :
         stack[t][d].persist
           => /\ stack[t][d].overrideParams = NoOverride
              /\ stack[t][d].saveOptions = stack[t][d - 1].saveOptions
    /\ \A i \in Events(t) :
         (log[t][i].ev = "save" /\ log[t][i].depth > 1)
           => log[t][i].saveOptions = call[t].saveOptions

(***************************************************************************)
(* C14.  Within a create call, the save of an entity is invoked only after *)
(* its override merge has completed and resolveEntity has gone through     *)
(* every one of its attributes; every related entity a nested factory      *)
(* produced is saved before the entity that references it.                 *)
(***************************************************************************)
C14_SaveAfterResolution ==
  \A t \in Tasks :
    /\ \A d \in 1..Depth(t) :
         stack[t][d].pc \in {"save", "initializing"}
           => /\ stack[t][d].attr = Len(Attrs) + 1
              /\ Invoked(t, "merge", stack[t][d].id) # {}
              /\ \A a \in AttrSet : ~IsPromiseLike(heap[t][stack[t][d].ent].attrs[a])
    /\ \A j \in Events(t) :
         log[t][j].ev = "save"
           => /\ \E i \in 1..(j - 1) :
                   log[t][i].ev = "merge" /\ log[t][i].call = log[t][j].call
              /\ \A a \in AttrSet : ~IsPromiseLike(heap[t][log[t][j].ent].attrs[a])
              /\ \A r \in Refs(heap[t][log[t][j].ent].attrs) :
                   \E i \in 1..(j - 1) : log[t][i].ev = "save" /\ log[t][i].ent = r

\* A create call on a factory with two levels of related factories has saved
\* its entity, whose attribute references a saved related entity.
C14_Witness ==
  \E t \in Tasks :
    /\ call[t].op = "create"
    /\ call[t].f = "house"
    /\ status[t] = "done"
    /\ Cardinality({i \in Events(t) : log[t][i].ev = "save"}) = 3
    /\ Refs(heap[t][list[t][1]].attrs) # {}

(***************************************************************************)
(* C15.  The entities one makeMany or createMany call with n >= 2 returns, *)
(* on a factory with a configured entity class, are n pairwise distinct    *)
(* instances: each is the instance its own iteration constructed, and the  *)
(* instances share no attribute slot and no related entity, so a write to  *)
(* one does not show in another.                                           *)
(***************************************************************************)
C15_DistinctInstances ==
  \A t \in Tasks :
    (Many(call[t].op) /\ entityClass(call[t].f) # "none")
      => /\ \A k \in 1..Len(list[t]) : \A l \in 1..Len(list[t]) :
              k # l
                => /\ list[t][k] # list[t][l]
                   /\ heap[t][list[t][k]].call # heap[t][list[t][l]].call
                   /\ Graph(t, list[t][k], Len(heap[t]))
                        \cap Graph(t, list[t][l], Len(heap[t])) = {}
         /\ \A k \in 1..Len(list[t]) :
              Cardinality({i \in Events(t) : log[t][i].ev = "entity"
                                               /\ log[t][i].ent = list[t][k]}) = 1
         /\ (status[t] = "done" /\ call[t].amount >= 2)
              => Cardinality({list[t][k] : k \in 1..Len(list[t])}) = call[t].amount

\* A createMany call for two entities on a factory with a related factory has
\* returned.
C15_Witness ==
  \E t \in Tasks :
    /\ call[t].op = "createMany"
    /\ call[t].f = "pet"
    /\ call[t].amount = 2
    /\ status[t] = "done"
    /\ Refs(heap[t][list[t][2]].attrs) # {}

(***************************************************************************)
(* C16.  Override-time configuration takes precedence over the definition: *)
(* a construction call instantiates the entity class of the constructor    *)
(* option overrides whenever they set one and the class of the definition  *)
(* options otherwise, and checks the context against the required keys of  *)
(* the option overrides whenever they set them and against those of the    *)
(* definition options otherwise.                                           *)
(***************************************************************************)
C16_ClassInForce(f) ==
  IF optionOverrides(f).entity # "none" THEN optionOverrides(f).entity
  ELSE IF options(f).entity # "none" THEN options(f).entity
  ELSE "Object"

C16_KeysInForce(f) ==
  IF optionOverrides(f).requiredContextKeys.def
  THEN optionOverrides(f).requiredContextKeys.keys
  ELSE IF options(f).requiredContextKeys.def
  THEN options(f).requiredContextKeys.keys
  ELSE {}

C16_OverridePrecedence ==
  \A t \in Tasks :
    /\ \A r \in 1..Len(heap[t]) : heap[t][r].cls = C16_ClassInForce(heap[t][r].by)
    /\ (\E i \in Events(t) : log[t][i].ev = "context" /\ log[t][i].depth = 1)
         => C16_KeysInForce(call[t].f) \subseteq call[t].context
    /\ (failure[t].err = "MissingContext" /\ failure[t].depth = 1)
         => ~(C16_KeysInForce(call[t].f) \subseteq call[t].context)

\* A make call has returned on a factory whose option overrides and
\* definition options require different context keys, with only the keys of
\* the overrides in the context; the related factory, whose option overrides
\* and definition options name different classes, has made its entity.
C16_Witness ==
  \E t \in Tasks :
    /\ call[t].op = "make"
    /\ status[t] = "done"
    /\ optionOverrides(call[t].f).requiredContextKeys.def
    /\ options(call[t].f).requiredContextKeys.def
    /\ ~(options(call[t].f).requiredContextKeys.keys \subseteq call[t].context)
    /\ \E r \in Returned(t) :
         /\ optionOverrides(heap[t][r].by).entity # "none"
         /\ options(heap[t][r].by).entity \notin {"none", heap[t][r].cls}

(***************************************************************************)
(* C17.  make and create terminate whenever the factory graph of the call  *)
(* is finite and acyclic and the hooks terminate.  When the entity hook of *)
(* a factory always places an instance of its own factory type in an       *)
(* attribute, a make or create call on it whose overrides leave that       *)
(* attribute in place never completes: every call on that factory goes on  *)
(* to a nested call on the same factory.                                   *)
(***************************************************************************)
\* The factories the entity hook of f places in attributes.
C17_Nested(f) ==
  IF HookOverridden(f)
  THEN {HookAttrs(f)[a].f : a \in {b \in AttrSet : InstanceOfFactory(HookAttrs(f)[b])}}
  ELSE {}

RECURSIVE C17_Reach(_, _)
C17_Reach(S, d) ==
  IF d = 0 THEN S ELSE C17_Reach(S \cup UNION {C17_Nested(f) : f \in S}, d - 1)

\* The factories a call can reach: its own and those in its overrides.
C17_Roots(in) ==
  {in.f} \cup {in.overrideParams[a].f :
                 a \in {b \in DOMAIN in.overrideParams :
                          in.overrideParams[b].kind = "factory"}}

C17_Acyclic(in) ==
  \A g \in C17_Reach(C17_Roots(in), Cardinality(Factories)) :
    g \notin C17_Reach(C17_Nested(g), Cardinality(Factories))

\* The attributes in which the entity hook of f places its own factory.
C17_SelfAttrs(f) ==
  IF HookOverridden(f)
  THEN {a \in AttrSet : HookAttrs(f)[a] = FactoryRef(f)}
  ELSE {}

C17_Terminates ==
  \A t \in Tasks :
    (status[t] = "running" /\ C17_Acyclic(call[t]))
      ~> (status[t] \in {"done", "failed"})

C17_SelfReferenceKept ==
  \A t \in Tasks :
    (/\ call[t].op \in {"make", "create"}
     /\ C17_SelfAttrs(call[t].f) # {}
     /\ C17_SelfAttrs(call[t].f) \cap DOMAIN call[t].overrideParams = {})
      => /\ status[t] \notin {"done", "failed"}
         /\ \A d \in 1..Depth(t) :
              /\ stack[t][d].f = call[t].f
              /\ stack[t][d].pc \notin {"finalize", "save", "initializing", "return"}

C17_SelfReferenceAny ==
  \A t \in Tasks :
    (call[t].op \in {"make", "create"} /\ C17_SelfAttrs(call[t].f) # {})
      => status[t] # "done"

C18_Unbound(f) == f \in Factories /\ ~optionOverrides(f).seedingSource

C18_NoSeedingSource ==
  \A t \in Tasks :
    /\ \A i \in Events(t) :
         C18_Unbound(log[t][i].f) => log[t][i].ev \notin {"initialize", "save"}
    /\ (call[t].op = "create" /\ C18_Unbound(call[t].f))
         => /\ status[t] # "done"
            /\ list[t] = <<>>
            /\ status[t] = "failed"
                 => (failure[t].err = "MissingSeedingSource"
                       <=> \E i \in Events(t) :
                             log[t][i].ev = "finalize" /\ log[t][i].depth = 1)
    /\ (call[t].op = "factory" /\ C18_Unbound(call[t].f))
         => /\ status[t] # "done"
            /\ log[t] = <<>>
            /\ status[t] = "failed" => failure[t].err = "MissingSeedingSource"

\* The claim as written: the error is always the missing-collaborator one.
C18_AlwaysMissingSeedingSource ==
  \A t \in Tasks :
    /\ \A i \in Events(t) :
         C18_Unbound(log[t][i].f) => log[t][i].ev \notin {"initialize", "save"}
    /\ (call[t].op \in {"create", "factory"} /\ C18_Unbound(call[t].f))
         => /\ status[t] # "done"
            /\ list[t] = <<>>
            /\ status[t] = "failed" => failure[t].err = "MissingSeedingSource"

\* A create call on the instance without seeding source has failed with the
\* missing-collaborator error after the related entity of a factory that has
\* one was saved.
C18_Witness ==
  \E t \in Tasks :
    /\ call[t].op = "create"
    /\ C18_Unbound(call[t].f)
    /\ status[t] = "failed"
    /\ failure[t].err = "MissingSeedingSource"
    /\ \E i \in Events(t) : log[t][i].ev = "save" /\ ~C18_Unbound(log[t][i].f)

(***************************************************************************)
(* C19.  In a create call that succeeds, save is invoked exactly once for  *)
(* the top-level entity and exactly once for each related entity a nested  *)
(* factory produced, at any depth, each time with that single entity;      *)
(* createMany(n) performs n separate saves of its top-level entities, one  *)
(* per iteration, never one batched save.                                  *)
(***************************************************************************)
C19_Saves(t) == {i \in Events(t) : log[t][i].ev = "save"}

C19_OneSavePerEntity ==
  \A t \in Tasks :
    /\ \A i \in C19_Saves(t) :
         /\ log[t][i].ent \in 1..Len(heap[t])
         /\ \A j \in C19_Saves(t) : log[t][j].ent = log[t][i].ent => j = i
    /\ (Persisting(call[t].op) /\ status[t] = "done")
         => /\ \A r \in Returned(t) :
                 Cardinality({i \in C19_Saves(t) : log[t][i].ent = r}) = 1
            /\ Cardinality(C19_Saves(t)) = Cardinality(Returned(t))
            /\ \A k \in 1..Len(list[t]) :
                 \E i \in C19_Saves(t) :
                   /\ log[t][i].ent = list[t][k]
                   /\ log[t][i].depth = 1
                   /\ log[t][i].iter = IF Many(call[t].op) THEN k - 1 ELSE 0
            /\ Cardinality({i \in C19_Saves(t) : log[t][i].depth = 1}) = Len(list[t])

\* A createMany call for two entities on a factory with two levels of
\* related factories has returned: six saves.
C19_Witness ==
  \E t \in Tasks :
    /\ call[t].op = "createMany"
    /\ call[t].f = "house"
    /\ status[t] = "done"
    /\ Len(list[t]) = 2
    /\ Cardinality(C19_Saves(t)) = 6

(***************************************************************************)
(* C20.  A construction call applies the map function that was registered  *)
(* when the call was started: at its map step it invokes that function,    *)
(* and none if none was registered, whatever map calls were made on the    *)
(* instance while the call was in flight.                                  *)
(***************************************************************************)
C20_AppliesRegisteredAtStart ==
  [][\A t \in Tasks :
       (At(t, "map") /\ stack'[t] # stack[t])
         => IF Top(t).registered = "none"
            THEN log'[t] = log[t]
            ELSE /\ Len(log'[t]) = Len(log[t]) + 1
                 /\ log'[t][Len(log'[t])].ev = "map"
                 /\ log'[t][Len(log'[t])].fn = Top(t).registered]_vars

====
